---- MODULE Spec2Model ----
(***************************************************************************)
(* One node of the distance-vector router in src/bfclient.py: the table    *)
(* `nodes`, the Bellman-Ford pass estimate_costs, the merge of inbound     *)
(* cost vectors (update_costs), the poison-reverse broadcast               *)
(* (broadcast_costs), the link commands linkdown / linkup / linkchange and *)
(* the per-neighbor silence monitor (ResettableTimer).                     *)
(*                                                                         *)
(* Time is counted in broadcast periods (run_args.timeout): a silence      *)
(* monitor lasts Interval periods.  Every handler is one step of the       *)
(* model, i.e. the handlers are taken in a serial order.                   *)
(***************************************************************************)
EXTENDS Integers, Sequences, FiniteSets, TLC

\* ---------------------------------------------------------------- values

\* float("inf")
Inf == 1000
\* a key that a dict does not hold ('direct', 'saved', or a destination of a
\* cost vector)
Absent == -1
\* node['silence_monitor'] is not set
NoMonitor == -2
\* the countdown of a monitor is cancelled or has run its function
Off == -1
\* 3*run_args.timeout, in broadcast periods
Interval == 3

\* largest link cost given to linkchange or claimed by a sender
MaxDirect == 2

me == "A"
Addrs == {"A", "B", "C"}
\* the order in which a cost vector lists its keys
KeyOrder == <<"A", "B", "C">>
\* what a datagram may carry for a destination: 1 for this node; 1 or no
\* key for B; 5, infinity (unreachable, or poisoned by the sender) or no key
\* for C
AdvCosts(d) == IF d = me THEN {1}
               ELSE IF d = "B" THEN {1, Absent} ELSE {5, Inf, Absent}
\* the cost vectors of inbound datagrams
Vectors == {v \in [Addrs -> {Absent, 1, 5, Inf}] : \A d \in Addrs : v[d] \in AdvCosts(d)}
\* the vectors that list C at 5
SomeVectors == {v \in Vectors : v["C"] = 5}
NoCosts == [d \in Addrs |-> Absent]
\* link costs on the wire and on the command line (0 is below the minimum)
WireDirects == 1..MaxDirect
CmdDirects == 0..MaxDirect

\* most handlers that the threads begin in a run
MaxCalls == 3
\* most datagrams that the socket holds at a time
MaxInbox == 2
\* a datagram as recvfrom returns it: bytes that are no JSON ("garbage"), a
\* costsupdate whose payload has no 'costs' ("nocosts"), or a costsupdate with
\* 'costs' and 'neighbor'
Datagram(kind, addr, costs, direct) ==
    [kind |-> kind, addr |-> addr, costs |-> costs, direct |-> direct]
Datagrams ==
    {Datagram(k, a, NoCosts, Absent) : k \in {"garbage", "nocosts"}, a \in Addrs \ {me}} \cup
    {Datagram("costsupdate", a, v, d) : a \in Addrs \ {me}, v \in SomeVectors, d \in WireDirects}

VARIABLES
    nodes,     \* the dict `nodes`: address -> node
    order,     \* the insertion order of the keys of `nodes`
    orphans,   \* running countdowns that no node's monitor refers to any more
    silent,    \* history: periods for which a countdown of the address has
               \* run since the address was last heard from or made a neighbor
    downCost,  \* history: the link cost an address had when it was taken
               \* down, until the link is brought up or found again
    sent,      \* the datagrams of the last step: neighbor -> payload
    last,      \* the last step: what ran, on which address, did it take effect
    inbox,     \* the datagrams that the socket holds for recvfrom, oldest first
    loop,      \* the receive loop of run_server
    pc,        \* thread -> where the thread is in its handler, and its locals
    begun,     \* the number of handlers that the threads have begun
    net        \* a network of nodes that all run this program: the table and
               \* key order of each, the datagrams under way between them, and
               \* whether a silence monitor has run out so far

\* the state around the table
others == <<inbox, loop, pc, begun, net>>

vars == <<nodes, order, orphans, silent, downCost, sent, last, others>>

\* float addition
Plus(a, b) == IF a = Inf \/ b = Inf THEN Inf ELSE a + b

Min(a, b) == IF a < b THEN a ELSE b

default_node ==
    [cost |-> Inf, is_neighbor |-> FALSE, route |-> "", direct |-> Absent,
     costs |-> NoCosts, saved |-> Absent, silence_monitor |-> NoMonitor]

\* nodes[addr] of the defaultdict: a missing key is created with default_node()
Lookup(nd, a) ==
    [x \in DOMAIN nd \cup {a} |-> IF x \in DOMAIN nd THEN nd[x] ELSE default_node]
LookupOrder(nd, ord, a) == IF a \in DOMAIN nd THEN ord ELSE Append(ord, a)

in_network(nd, a) == a \in DOMAIN nd

get_neighbors(nd, ord) == SelectSeq(ord, LAMBDA a : nd[a].is_neighbor)

Neighbors == {a \in DOMAIN nodes : nodes[a].is_neighbor}

create_node(cost, is_neighbor, direct, costs, addr) ==
    [cost |-> cost,
     is_neighbor |-> is_neighbor,
     route |-> IF is_neighbor THEN addr ELSE "",
     direct |-> IF direct # Absent THEN direct ELSE Inf,
     costs |-> costs,
     saved |-> Absent,
     silence_monitor |-> IF is_neighbor THEN Interval ELSE NoMonitor]

\* what the table holds for an address
Status(nd, a) ==
    IF a \notin DOMAIN nd THEN "unknown"
    ELSE IF nd[a].is_neighbor THEN "neighbor"
    ELSE IF nd[a].saved # Absent THEN "down"
    ELSE "plain"

\* the record of a step: what ran, on which address, the link cost and the
\* cost vector it read from its arguments (Absent, NoCosts when it read
\* none), whether it took effect; `nbr`: the address was a neighbor before the
\* step, `age`: the value of silent[addr] before it
Step(op, addr, direct, costs, ok) ==
    [op |-> op, addr |-> addr, direct |-> direct, costs |-> costs, ok |-> ok,
     nbr |-> Status(nodes, addr) = "neighbor", age |-> silent[addr]]

\* ------------------------------------------------------- estimate_costs

\* the loop without the comparison: the last neighbor that lists dest wins
RECURSIVE cheapest_last(_, _, _, _, _)
cheapest_last(nd, nbrs, dest, cost, nexthop) ==
    IF nbrs = <<>> THEN <<cost, nexthop>>
    ELSE LET neighbor == nd[Head(nbrs)]
             dist == Plus(neighbor.direct, neighbor.costs[dest])
         IN  IF neighbor.costs[dest] # Absent /\ dist < Inf
             THEN cheapest_last(nd, Tail(nbrs), dest, dist, Head(nbrs))
             ELSE cheapest_last(nd, Tail(nbrs), dest, cost, nexthop)

\* the inner loop of estimate_costs over the neighbors, in dict order
RECURSIVE cheapest(_, _, _, _, _)
cheapest(nd, nbrs, dest, cost, nexthop) ==
    IF nbrs = <<>> THEN <<cost, nexthop>>
    ELSE LET neighbor == nd[Head(nbrs)]
             dist == Plus(neighbor.direct, neighbor.costs[dest])
         IN  IF neighbor.costs[dest] # Absent /\ dist < cost
             THEN cheapest(nd, Tail(nbrs), dest, dist, Head(nbrs))
             ELSE cheapest(nd, Tail(nbrs), dest, cost, nexthop)

\* the search starts from the entry's present cost and route
estimate_start_kept(node) == <<node.cost, node.route>>

\* lines 60-61
estimate_start(node) == <<Inf, "">>

\* every entry is a target, this node too
estimate_target_any(destination_addr) == TRUE

\* line 58
estimate_target(destination_addr) == destination_addr # me

\* the pass without line 71: the cost is written, the route is left
estimate_costs_unrouted(nd, ord) ==
    LET nbrs == get_neighbors(nd, ord)
    IN  [d \in DOMAIN nd |->
            IF estimate_target(d)
            THEN LET start == estimate_start(nd[d])
                     best == cheapest(nd, nbrs, d, start[1], start[2])
                 IN  [nd[d] EXCEPT !.cost = best[1]]
            ELSE nd[d]]

estimate_costs(nd, ord) ==
    LET nbrs == get_neighbors(nd, ord)
    IN  [d \in DOMAIN nd |->
            IF estimate_target(d)
            THEN LET start == estimate_start(nd[d])
                     best == cheapest(nd, nbrs, d, start[1], start[2])
                 IN  [nd[d] EXCEPT !.cost = best[1], !.route = best[2]]
            ELSE nd[d]]

\* ------------------------------------------------------- ResettableTimer

\* reset without the cancel: the old countdown keeps running
reset_uncancelled(countdown) ==
    <<Interval, IF countdown >= 0 THEN {countdown} ELSE {}>>

\* ResettableTimer.reset: cancel the countdown, create and start a new one.
\* <<the new countdown, the countdowns left running beside it>>
reset(countdown) == <<Interval, {}>>

\* ResettableTimer.cancel
cancel(countdown) == Off

Running(countdown) == countdown >= 0

\* ---------------------------------------------------------- update_costs

\* lines 78-81: every key of the vector that `nodes` lacks gets a default node
NewKeys(nd, costs) ==
    SelectSeq(KeyOrder, LAMBDA k : costs[k] # Absent /\ k \notin DOMAIN nd)

AddKeys(nd, costs) ==
    [x \in DOMAIN nd \cup {k \in Addrs : costs[k] # Absent} |->
        IF x \in DOMAIN nd THEN nd[x] ELSE default_node]

\* the sender's claimed link cost is not passed on
promote_undirected(direct, costs, addr) ==
    create_node(default_node.cost, TRUE, Absent, costs, addr)

\* lines 86-92: del nodes[addr], then create_node with the cost that the
\* defaultdict now gives for addr
promote(direct, costs, addr) ==
    create_node(default_node.cost, TRUE, direct, costs, addr)

\* lines 95-98, without the timer
refresh(node, costs) == [node EXCEPT !.costs = costs]

update_costs(addr, costs, direct) ==
    LET nd1 == AddKeys(nodes, costs)
        ord1 == order \o NewKeys(nodes, costs)
        nd2 == Lookup(nd1, addr)
        ord2 == LookupOrder(nd1, ord1, addr)
        old == nd2[addr]
        promoted == ~old.is_neighbor
        rst == reset(old.silence_monitor)
        node == IF promoted
                THEN promote(direct, costs, addr)
                ELSE [refresh(old, costs) EXCEPT !.silence_monitor = rst[1]]
        ord3 == IF promoted
                THEN Append(SelectSeq(ord2, LAMBDA x : x # addr), addr)
                ELSE ord2
        left == IF promoted
                THEN (IF Running(old.silence_monitor)
                      THEN {old.silence_monitor} ELSE {})
                ELSE rst[2]
        nd3 == [nd2 EXCEPT ![addr] = node]
    IN  /\ nodes' = estimate_costs(nd3, ord3)
        /\ order' = ord3
        /\ orphans' = [orphans EXCEPT ![addr] = @ \cup left]
        /\ silent' = [silent EXCEPT ![addr] = 0]
        /\ downCost' = [downCost EXCEPT ![addr] = Absent]
        /\ sent' = << >>
        /\ last' = Step("costsupdate", addr, IF promoted THEN direct ELSE Absent, costs, TRUE)

\* update_costs without line 100: the table is left as the vector was stored
merged_unestimated(nd, ord, addr, costs, direct) ==
    LET nd1 == AddKeys(nd, costs)
        ord1 == ord \o NewKeys(nd, costs)
        nd2 == Lookup(nd1, addr)
        ord2 == LookupOrder(nd1, ord1, addr)
        old == nd2[addr]
        promoted == ~old.is_neighbor
        node == IF promoted
                THEN promote(direct, costs, addr)
                ELSE [refresh(old, costs) EXCEPT
                         !.silence_monitor = reset(old.silence_monitor)[1]]
        ord3 == IF promoted
                THEN Append(SelectSeq(ord2, LAMBDA x : x # addr), addr)
                ELSE ord2
    IN  [nodes |-> [nd2 EXCEPT ![addr] = node], order |-> ord3]

\* update_costs as a function of the table nd and its key order ord: the
\* table and the order that the handler leaves
merged(nd, ord, addr, costs, direct) ==
    LET nd1 == AddKeys(nd, costs)
        ord1 == ord \o NewKeys(nd, costs)
        nd2 == Lookup(nd1, addr)
        ord2 == LookupOrder(nd1, ord1, addr)
        old == nd2[addr]
        promoted == ~old.is_neighbor
        node == IF promoted
                THEN promote(direct, costs, addr)
                ELSE [refresh(old, costs) EXCEPT
                         !.silence_monitor = reset(old.silence_monitor)[1]]
        ord3 == IF promoted
                THEN Append(SelectSeq(ord2, LAMBDA x : x # addr), addr)
                ELSE ord2
    IN  [nodes |-> estimate_costs([nd2 EXCEPT ![addr] = node], ord3), order |-> ord3]

\* ------------------------------------------------------- broadcast_costs

\* lines 108-115: the vector built for one neighbor
poison_exempt(dest_addr, neighbor_addr) == dest_addr \in {me, neighbor_addr}

\* the vector without poison reverse
plain_costs(nd, neighbor_addr) == [dest_addr \in DOMAIN nd |-> nd[dest_addr].cost]

poisoned_costs(nd, neighbor_addr) ==
    [dest_addr \in DOMAIN nd |->
        IF /\ ~poison_exempt(dest_addr, neighbor_addr)
           /\ nd[dest_addr].route = neighbor_addr
        THEN Inf
        ELSE nd[dest_addr].cost]

broadcast_costs(nd) ==
    [n \in {a \in DOMAIN nd : nd[a].is_neighbor} |->
        [costs |-> poisoned_costs(nd, n), direct |-> nd[n].direct]]

\* ------------------------------------------------------------ RepeatTimer

\* a countdown that has reached its deadline runs before more time passes
Due == {a \in DOMAIN nodes : nodes[a].silence_monitor = 0} \cup
       {a \in Addrs : 0 \in orphans[a]}

\* the addresses that some countdown is running for
Counting == {a \in DOMAIN nodes : Running(nodes[a].silence_monitor)} \cup
            {a \in Addrs : orphans[a] # {}}

elapse(countdown) == IF countdown > 0 THEN countdown - 1 ELSE countdown

\* one broadcast period of time passes for every running countdown
period_elapses ==
    /\ Due = {}
    /\ nodes' = [a \in DOMAIN nodes |->
                    [nodes[a] EXCEPT !.silence_monitor = elapse(@)]]
    /\ orphans' = [a \in Addrs |-> {elapse(c) : c \in orphans[a]}]
    /\ silent' = [a \in Addrs |->
                    IF a \in Counting THEN Min(silent[a] + 1, Interval) ELSE silent[a]]
    /\ sent' = << >>
    /\ last' = Step("period", me, Absent, NoCosts, TRUE)
    /\ UNCHANGED <<order, downCost, others>>

\* RepeatTimer.run: the target, broadcast_costs, is called
RepeatTimer_run ==
    /\ sent' = broadcast_costs(nodes)
    /\ last' = Step("broadcast", me, Absent, NoCosts, TRUE)
    /\ UNCHANGED <<nodes, order, orphans, silent, downCost, others>>

\* ------------------------------------------------------- link commands

\* the node is looked up only when the address is in the network
get_node_checked(nd, ord, addr) ==
    [nodes |-> IF in_network(nd, addr) THEN Lookup(nd, addr) ELSE nd,
     order |-> ord,
     err |-> ~in_network(nd, addr)]

\* line 159 runs whether or not line 157 found the address
get_node(nd, ord, addr) ==
    [nodes |-> Lookup(nd, addr),
     order |-> LookupOrder(nd, ord, addr),
     err |-> ~in_network(nd, addr)]

\* the link cost is saved after it was overwritten
take_down_late(node) ==
    [node EXCEPT !.saved = Inf,
                 !.direct = Inf,
                 !.is_neighbor = FALSE,
                 !.silence_monitor = cancel(@)]

\* lines 186-189
take_down(node) ==
    [node EXCEPT !.saved = node.direct,
                 !.direct = Inf,
                 !.is_neighbor = FALSE,
                 !.silence_monitor = cancel(@)]

linkdown_valid(g, addr) == ~g.err /\ g.nodes[addr].is_neighbor

\* linkdown without line 191: no pass of estimate_costs
linkdown_unestimated(nd, ord, addr) ==
    LET g == get_node(nd, ord, addr)
    IN  IF linkdown_valid(g, addr)
        THEN [nodes |-> [g.nodes EXCEPT ![addr] = take_down(@)],
              order |-> g.order, ok |-> TRUE]
        ELSE [nodes |-> g.nodes, order |-> g.order, ok |-> FALSE]

linkdown(nd, ord, addr) ==
    LET g == get_node(nd, ord, addr)
    IN  IF linkdown_valid(g, addr)
        THEN [nodes |-> estimate_costs([g.nodes EXCEPT ![addr] = take_down(@)], g.order),
              order |-> g.order, ok |-> TRUE]
        ELSE [nodes |-> g.nodes, order |-> g.order, ok |-> FALSE]

\* the restore without line 202: the saved cost is kept
bring_up_unforgetting(node) ==
    [node EXCEPT !.direct = node.saved,
                 !.is_neighbor = TRUE]

\* lines 201-203
bring_up(node) ==
    [node EXCEPT !.direct = node.saved,
                 !.saved = Absent,
                 !.is_neighbor = TRUE]

\* linkup without the test for a saved cost
linkup_valid_unsaved(g, addr) == ~g.err

linkup_valid(g, addr) == ~g.err /\ g.nodes[addr].saved # Absent

linkup(nd, ord, addr) ==
    LET g == get_node(nd, ord, addr)
    IN  IF linkup_valid(g, addr)
        THEN [nodes |-> estimate_costs([g.nodes EXCEPT ![addr] = bring_up(@)], g.order),
              order |-> g.order, ok |-> TRUE]
        ELSE [nodes |-> g.nodes, order |-> g.order, ok |-> FALSE]

\* the minimum link cost is taken to be 0
linkchange_valid_from0(g, addr, direct) ==
    /\ ~g.err
    /\ g.nodes[addr].is_neighbor
    /\ ~(direct < 0)
    /\ g.nodes[addr].saved = Absent

linkchange_valid(g, addr, direct) ==
    /\ ~g.err
    /\ g.nodes[addr].is_neighbor
    /\ ~(direct < 1)
    /\ g.nodes[addr].saved = Absent

linkchange(nd, ord, addr, direct) ==
    LET g == get_node(nd, ord, addr)
    IN  IF linkchange_valid(g, addr, direct)
        THEN [nodes |-> estimate_costs([g.nodes EXCEPT ![addr].direct = direct], g.order),
              order |-> g.order, ok |-> TRUE]
        ELSE [nodes |-> g.nodes, order |-> g.order, ok |-> FALSE]

\* a command or a timer callback has run with result r
Handled(name, addr, direct, r) ==
    /\ nodes' = r.nodes
    /\ order' = r.order
    /\ sent' = << >>
    /\ last' = Step(name, addr, direct, NoCosts, r.ok)
    /\ UNCHANGED others

\* the history of a takedown of addr that took effect or not
TakenDown(addr, ok) ==
    /\ silent' = IF ok THEN [silent EXCEPT ![addr] = 0] ELSE silent
    /\ downCost' = IF ok THEN [downCost EXCEPT ![addr] = nodes[addr].direct]
                   ELSE downCost

cmd_linkdown(addr) ==
    LET r == linkdown(nodes, order, addr)
    IN  /\ Handled("linkdown", addr, Absent, r)
        /\ TakenDown(addr, r.ok)
        /\ UNCHANGED orphans

cmd_linkup(addr) ==
    LET r == linkup(nodes, order, addr)
    IN  /\ Handled("linkup", addr, Absent, r)
        /\ silent' = IF r.ok THEN [silent EXCEPT ![addr] = 0] ELSE silent
        /\ downCost' = IF r.ok THEN [downCost EXCEPT ![addr] = Absent] ELSE downCost
        /\ UNCHANGED orphans

cmd_linkchange(addr, direct) ==
    /\ Handled("linkchange", addr, direct, linkchange(nodes, order, addr, direct))
    /\ UNCHANGED <<orphans, silent, downCost>>

\* the Timer of a silence monitor runs its function, linkdown(addr)
silence_expired(addr) ==
    /\ addr \in Due
    /\ LET mine == addr \in DOMAIN nodes /\ nodes[addr].silence_monitor = 0
           nd == IF mine THEN [nodes EXCEPT ![addr].silence_monitor = Off] ELSE nodes
           r == linkdown(nd, order, addr)
       IN  /\ Handled("expired", addr, Absent, r)
           /\ TakenDown(addr, r.ok)
           /\ orphans' = IF mine THEN orphans
                         ELSE [orphans EXCEPT ![addr] = @ \ {0}]

\* ---------------------------------------------------------------- threads

\* the main thread (receive loop), the operator's commands, and the Timer
\* thread of a silence monitor; the RepeatTimer thread has no locals
Threads == {"recv", "cmd", "timer"}

\* the locals of a handler: the line it is at, its address, its arguments,
\* and whether `node`, the dict it looked up, has left the table since
Frame(at, addr, costs, direct) ==
    [at |-> at, addr |-> addr, costs |-> costs, direct |-> direct, stale |-> FALSE]
Idle == Frame("idle", me, NoCosts, Absent)

\* thread t is called with a handler and has run it up to the line of `frame`
Begin(t, frame) ==
    /\ pc[t].at = "idle"
    /\ begun < MaxCalls
    /\ begun' = begun + 1
    /\ pc' = [pc EXCEPT ![t] = frame]

\* the thread goes on to line `at`
Goto(t, at) == pc' = [pc EXCEPT ![t].at = at] /\ UNCHANGED begun
Return(t) == pc' = [pc EXCEPT ![t] = Idle] /\ UNCHANGED begun

\* a write through the local `node` of thread t: it reaches the
\* table unless the dict was taken out of the table
Assign(t, node) ==
    IF pc[t].stale \/ pc[t].addr \notin DOMAIN nodes THEN nodes
    ELSE [nodes EXCEPT ![pc[t].addr] = node]

\* the dict of addr leaves the table: the locals that refer to it are stale
Unlink(t, addr, at) ==
    /\ pc' = [u \in Threads |->
                 IF u = t THEN [pc[u] EXCEPT !.at = at]
                 ELSE IF pc[u].addr = addr /\ pc[u].at # "idle"
                      THEN [pc[u] EXCEPT !.stale = TRUE]
                      ELSE pc[u]]
    /\ UNCHANGED begun

\* a step of a handler that is no pass of estimate_costs
Stepped(t, name) ==
    /\ last' = Step(name, pc[t].addr, Absent, NoCosts, TRUE)
    /\ sent' = << >>
    /\ UNCHANGED <<inbox, loop, net>>

\* a handler's last line, estimate_costs()
Estimated(t, name) ==
    /\ nodes' = estimate_costs(nodes, order)
    /\ last' = Step(name, pc[t].addr, Absent, NoCosts, TRUE)
    /\ sent' = << >>
    /\ Return(t)
    /\ UNCHANGED <<order, orphans, silent, downCost, inbox, loop, net>>

\* update_costs, lines 75-81
update_costs_75(addr, costs, direct) ==
    /\ Begin("recv", Frame("83", addr, costs, direct))
    /\ nodes' = AddKeys(nodes, costs)
    /\ order' = order \o NewKeys(nodes, costs)
    /\ last' = Step("received", addr, Absent, NoCosts, TRUE)
    /\ sent' = << >>
    /\ UNCHANGED <<orphans, silent, downCost, inbox, loop, net>>

\* line 83
update_costs_83 ==
    /\ pc["recv"].at = "83"
    /\ nodes' = Lookup(nodes, pc["recv"].addr)
    /\ order' = LookupOrder(nodes, order, pc["recv"].addr)
    /\ Goto("recv", IF nodes'[pc["recv"].addr].is_neighbor THEN "95" ELSE "86")
    /\ Stepped("recv", "tested")
    /\ UNCHANGED <<orphans, silent, downCost>>

\* line 86: del nodes[addr]; the Timer of its monitor, if one runs, runs on
update_costs_86 ==
    LET addr == pc["recv"].addr
    IN  /\ pc["recv"].at = "86"
        /\ addr \in DOMAIN nodes
        /\ nodes' = [x \in DOMAIN nodes \ {addr} |-> nodes[x]]
        /\ order' = SelectSeq(order, LAMBDA x : x # addr)
        /\ orphans' = [orphans EXCEPT ![addr] =
                          IF Running(nodes[addr].silence_monitor)
                          THEN @ \cup {nodes[addr].silence_monitor} ELSE @]
        /\ Unlink("recv", addr, "87")
        /\ last' = Step("deleted", addr, Absent, NoCosts, TRUE)
        /\ sent' = << >>
        /\ UNCHANGED <<silent, downCost, inbox, loop, net>>

\* lines 87-92: nodes[addr] = create_node(cost = nodes[addr]['cost'], ...)
update_costs_87 ==
    LET addr == pc["recv"].addr
        found == Lookup(nodes, addr)
        node == [promote(pc["recv"].direct, pc["recv"].costs, addr)
                    EXCEPT !.cost = found[addr].cost]
    IN  /\ pc["recv"].at = "87"
        /\ nodes' = [found EXCEPT ![addr] = node]
        /\ order' = LookupOrder(nodes, order, addr)
        /\ orphans' = [orphans EXCEPT ![addr] =
                          IF Running(found[addr].silence_monitor)
                          THEN @ \cup {found[addr].silence_monitor} ELSE @]
        /\ silent' = [silent EXCEPT ![addr] = 0]
        /\ downCost' = [downCost EXCEPT ![addr] = Absent]
        /\ Unlink("recv", addr, "100")
        /\ last' = Step("promoted", addr, pc["recv"].direct, pc["recv"].costs, TRUE)
        /\ sent' = << >>
        /\ UNCHANGED <<inbox, loop, net>>

\* lines 95-98
update_costs_95 ==
    LET addr == pc["recv"].addr
        found == Lookup(nodes, addr)
        rst == reset(found[addr].silence_monitor)
    IN  /\ pc["recv"].at = "95"
        /\ nodes' = [found EXCEPT ![addr] =
                        [refresh(@, pc["recv"].costs) EXCEPT !.silence_monitor = rst[1]]]
        /\ order' = LookupOrder(nodes, order, addr)
        /\ orphans' = [orphans EXCEPT ![addr] = @ \cup rst[2]]
        /\ silent' = [silent EXCEPT ![addr] = 0]
        /\ Goto("recv", "100")
        /\ Stepped("recv", "refreshed")
        /\ UNCHANGED downCost

\* line 100
update_costs_100 ==
    /\ pc["recv"].at = "100"
    /\ Estimated("recv", "costsupdate")

\* linkdown, lines 180-184, in thread t
linkdown_180(t, addr) ==
    LET g == get_node(nodes, order, addr)
    IN  /\ nodes' = g.nodes
        /\ order' = g.order
        /\ Begin(t, IF linkdown_valid(g, addr)
                     THEN Frame("186", addr, NoCosts, Absent) ELSE Idle)
        /\ last' = Step("linkdown", addr, Absent, NoCosts, linkdown_valid(g, addr))
        /\ sent' = << >>
        /\ UNCHANGED <<inbox, loop, net>>

\* the operator's LINKDOWN
cmd_linkdown_180(addr) ==
    /\ linkdown_180("cmd", addr)
    /\ UNCHANGED <<orphans, silent, downCost>>

\* the Timer of a countdown that is due calls linkdown
timer_linkdown_180(addr) ==
    /\ addr \in Due
    /\ LET mine == addr \in DOMAIN nodes /\ nodes[addr].silence_monitor = 0
           nd == IF mine THEN [nodes EXCEPT ![addr].silence_monitor = Off] ELSE nodes
           g == get_node(nd, order, addr)
       IN  /\ nodes' = g.nodes
           /\ order' = g.order
           /\ orphans' = IF mine THEN orphans ELSE [orphans EXCEPT ![addr] = @ \ {0}]
           /\ Begin("timer", IF linkdown_valid(g, addr)
                             THEN Frame("186", addr, NoCosts, Absent) ELSE Idle)
           /\ last' = Step("expired", addr, Absent, NoCosts, linkdown_valid(g, addr))
    /\ sent' = << >>
    /\ UNCHANGED <<silent, downCost, inbox, loop, net>>

\* lines 186-187, through the local `node`
linkdown_186(t) ==
    LET addr == pc[t].addr
    IN  /\ pc[t].at = "186"
        /\ nodes' = IF addr \in DOMAIN nodes
                     THEN Assign(t, [nodes[addr] EXCEPT !.saved = nodes[addr].direct,
                                                        !.direct = Inf])
                     ELSE nodes
        /\ downCost' = IF nodes' # nodes
                        THEN [downCost EXCEPT ![addr] = nodes[addr].direct]
                        ELSE downCost
        /\ Goto(t, "188")
        /\ Stepped(t, "saved")
        /\ UNCHANGED <<order, orphans, silent>>

\* lines 188-189, through the local `node`
linkdown_188(t) ==
    LET addr == pc[t].addr
    IN  /\ pc[t].at = "188"
        /\ nodes' = IF addr \in DOMAIN nodes
                     THEN Assign(t, [nodes[addr] EXCEPT !.is_neighbor = FALSE,
                                                        !.silence_monitor = cancel(@)])
                     ELSE nodes
        /\ silent' = IF nodes' # nodes THEN [silent EXCEPT ![addr] = 0] ELSE silent
        /\ Goto(t, "191")
        /\ Stepped(t, "downed")
        /\ UNCHANGED <<order, orphans, downCost>>

\* line 191
linkdown_191(t) ==
    /\ pc[t].at = "191"
    /\ Estimated(t, "takendown")

\* linkup, lines 194-203
cmd_linkup_194(addr) ==
    LET g == get_node(nodes, order, addr)
        ok == linkup_valid(g, addr)
    IN  /\ nodes' = IF ok THEN [g.nodes EXCEPT ![addr] = bring_up(@)] ELSE g.nodes
        /\ order' = g.order
        /\ silent' = IF ok THEN [silent EXCEPT ![addr] = 0] ELSE silent
        /\ downCost' = IF ok THEN [downCost EXCEPT ![addr] = Absent] ELSE downCost
        /\ Begin("cmd", IF ok THEN Frame("205", addr, NoCosts, Absent) ELSE Idle)
        /\ last' = Step("linkup", addr, Absent, NoCosts, ok)
        /\ sent' = << >>
        /\ UNCHANGED <<orphans, inbox, loop, net>>

\* line 205
cmd_linkup_205 ==
    /\ pc["cmd"].at = "205"
    /\ Estimated("cmd", "broughtup")


\* ---------------------------------------------------------------- network

\* most datagrams under way from one node to another
MaxInFlight == 1

\* the configured links: A - B and B - C at cost 1, the same in both
\* directions; A and C have no link
LinkCost(x, y) == IF {x, y} = {"A", "C"} THEN Inf ELSE 1
Links == {l \in Addrs \X Addrs : l[1] # l[2] /\ LinkCost(l[1], l[2]) < Inf}

\* the table of node x after startup: its neighbors at their link costs,
\* then itself
configured(x) ==
    [a \in {x} \cup {n \in Addrs : <<x, n>> \in Links} |->
        IF a = x THEN create_node(0, FALSE, 0, NoCosts, x)
        ELSE create_node(LinkCost(x, a), TRUE, LinkCost(x, a), NoCosts, a)]
configured_order(x) == SelectSeq(KeyOrder, LAMBDA a : <<x, a>> \in Links) \o <<x>>

\* node x runs the program with me = x. The handlers above are written for
\* the node `me`; as they treat addresses alike but for the tests against
\* `me`, node x runs them on its table with the names x and `me` exchanged.
Swap(x, a) == IF a = x THEN me ELSE IF a = me THEN x ELSE a
SwapVector(x, costs) == [d \in Addrs |-> costs[Swap(x, d)]]
SwapNode(x, node) ==
    [node EXCEPT !.route = Swap(x, @), !.costs = SwapVector(x, @)]
SwapTable(x, nd) ==
    [a \in {Swap(x, k) : k \in DOMAIN nd} |-> SwapNode(x, nd[Swap(x, a)])]
SwapOrder(x, ord) == [i \in DOMAIN ord |-> Swap(x, ord[i])]

\* json.dumps of a cost vector: the keys of the table, and no others
Wire(costs) == [d \in Addrs |-> IF d \in DOMAIN costs THEN costs[d] ELSE Absent]

\* the single node of the other specifications stays as it is
Apart == UNCHANGED <<nodes, order, orphans, silent, downCost, sent, last,
                     inbox, loop, pc, begun>>

\* the countdowns of all nodes that are due; a Timer fires at its time, before
\* anything else happens
net_due == {l \in Links : net.tbl[l[1]][l[2]].silence_monitor = 0}

\* the datagrams that node x sends in one call of broadcast_costs
net_payloads(x) ==
    LET b == broadcast_costs(SwapTable(x, net.tbl[x]))
    IN  [n \in {Swap(x, k) : k \in DOMAIN b} |->
            [costs |-> SwapVector(x, Wire(b[Swap(x, n)].costs)),
             direct |-> b[Swap(x, n)].direct]]

\* RepeatTimer of node x calls broadcast_costs
net_broadcast(x) ==
    LET out == net_payloads(x)
    IN  /\ net_due = {}
        /\ \A n \in DOMAIN out : Len(net.chan[<<x, n>>]) < MaxInFlight
        /\ net' = [net EXCEPT !.chan =
                      [l \in Links |->
                          IF l[1] = x /\ l[2] \in DOMAIN out
                          THEN Append(net.chan[l], out[l[2]])
                          ELSE net.chan[l]]]
        /\ Apart

\* node y receives the oldest datagram under way from x: update_costs
net_deliver(x, y) ==
    /\ net_due = {}
    /\ net.chan[<<x, y>>] # << >>
    /\ LET data == Head(net.chan[<<x, y>>])
           m == merged(SwapTable(y, net.tbl[y]), SwapOrder(y, net.ord[y]),
                       Swap(y, x), SwapVector(y, data.costs), data.direct)
       IN  net' = [net EXCEPT !.tbl[y] = SwapTable(y, m.nodes),
                              !.ord[y] = SwapOrder(y, m.order),
                              !.chan[<<x, y>>] = Tail(@)]
    /\ Apart

\* one broadcast period passes at every node; a datagram is under way for
\* less than a period
net_period ==
    /\ net_due = {}
    /\ \A l \in Links : net.chan[l] = << >>
    /\ net' = [net EXCEPT !.tbl =
                  [x \in Addrs |->
                      [a \in DOMAIN net.tbl[x] |->
                          [net.tbl[x][a] EXCEPT !.silence_monitor = elapse(@)]]]]
    /\ Apart

\* the monitor that node x keeps for n runs out: linkdown
net_expire(x, n) ==
    /\ <<x, n>> \in net_due
    /\ LET r == linkdown(SwapTable(x, [net.tbl[x] EXCEPT ![n].silence_monitor = Off]),
                         SwapOrder(x, net.ord[x]), Swap(x, n))
       IN  net' = [net EXCEPT !.tbl[x] = SwapTable(x, r.nodes),
                              !.ord[x] = SwapOrder(x, r.order),
                              !.expired = TRUE]
    /\ Apart

\* ------------------------------------------------------------ run_server

\* line 261: json.loads(data) returns
decodes(data) == data.kind # "garbage"

\* line 75: kwargs['costs'] finds the key
has_costs(data) == data.kind = "costsupdate"

\* a datagram is sent to this node's socket
sendto_me(data) ==
    /\ Len(inbox) < MaxInbox
    /\ inbox' = Append(inbox, data)
    /\ last' = Step("sendto", data.addr, Absent, NoCosts, TRUE)
    /\ sent' = << >>
    /\ UNCHANGED <<nodes, order, orphans, silent, downCost, loop, pc, begun, net>>

\* the steps of the loop that leave the table alone
Received(name, state) ==
    /\ inbox' = Tail(inbox)
    /\ loop' = [state |-> state, failed |-> TRUE]
    /\ last' = Step(name, Head(inbox).addr, Absent, NoCosts, FALSE)
    /\ sent' = << >>
    /\ UNCHANGED <<nodes, order, orphans, silent, downCost, pc, begun, net>>

\* lines 258-264: json.loads raises ValueError; print, break out of the for
\* loop, and the while loop goes on
recv_undecodable ==
    /\ loop.state = "running"
    /\ inbox # << >>
    /\ ~decodes(Head(inbox))
    /\ Received("undecodable", "running")

\* lines 265-269: the handler raises (KeyError at line 75, before any write);
\* no except clause takes it, the finally clause closes the socket and
\* run_server ends
recv_raising ==
    /\ loop.state = "running"
    /\ inbox # << >>
    /\ decodes(Head(inbox))
    /\ ~has_costs(Head(inbox))
    /\ Received("raised", "closed")

\* line 265: the handler, update_costs, returns
recv_costsupdate ==
    /\ loop.state = "running"
    /\ inbox # << >>
    /\ decodes(Head(inbox))
    /\ has_costs(Head(inbox))
    /\ update_costs(Head(inbox).addr, Head(inbox).costs, Head(inbox).direct)
    /\ inbox' = Tail(inbox)
    /\ UNCHANGED <<loop, pc, begun, net>>

\* ----------------------------------------------------------- the system

\* the table after startup: self, and the configured neighbor B at cost 1
Init ==
    /\ nodes = [a \in {"B", me} |->
                 IF a = me THEN create_node(0, FALSE, 0, NoCosts, me)
                 ELSE create_node(1, TRUE, 1, NoCosts, a)]
    /\ order = <<"B", me>>
    /\ orphans = [a \in Addrs |-> {}]
    /\ silent = [a \in Addrs |-> 0]
    /\ downCost = [a \in Addrs |-> Absent]
    /\ sent = << >>
    /\ last = [op |-> "init", addr |-> me, direct |-> Absent, costs |-> NoCosts,
               ok |-> TRUE, nbr |-> FALSE, age |-> 0]
    /\ inbox = << >>
    /\ loop = [state |-> "running", failed |-> FALSE]
    /\ pc = [t \in Threads |-> Idle]
    /\ begun = 0
    /\ net = [tbl |-> [x \in Addrs |-> configured(x)],
              ord |-> [x \in Addrs |-> configured_order(x)],
              chan |-> [l \in Links |-> << >>],
              expired |-> FALSE]

\* the operator's commands on the addresses `on`, with link costs `directs`
Commands(on, directs) ==
    \/ \E addr \in on : cmd_linkdown(addr)
    \/ \E addr \in on : cmd_linkup(addr)
    \/ \E addr \in on, direct \in directs : cmd_linkchange(addr, direct)

\* the node over time: datagrams with the vectors of SomeVectors
Next ==
    \/ \E addr \in Addrs \ {me}, costs \in SomeVectors, direct \in WireDirects :
          update_costs(addr, costs, direct) /\ UNCHANGED others
    \/ period_elapses
    \/ RepeatTimer_run
    \/ \E addr \in Addrs : silence_expired(addr)
    \/ Commands(Addrs, CmdDirects)

Spec == Init /\ [][Next]_vars

\* the timer threads get to run
FairSpec ==
    /\ Spec
    /\ WF_vars(period_elapses)
    /\ \A addr \in Addrs : WF_vars(silence_expired(addr))

\* the table within one broadcast period: datagrams with any vector of
\* Vectors, commands on the other nodes with link costs of at least 1
NextRoute ==
    \/ \E addr \in Addrs \ {me}, costs \in Vectors, direct \in WireDirects :
          update_costs(addr, costs, direct) /\ UNCHANGED others
    \/ Commands(Addrs \ {me}, WireDirects)

SpecRoute == Init /\ [][NextRoute]_vars

\* the receive loop and the datagrams sent to it, of any kind
NextLoop ==
    \/ \E data \in Datagrams : sendto_me(data)
    \/ recv_undecodable
    \/ recv_raising
    \/ recv_costsupdate

SpecLoop == Init /\ [][NextLoop]_vars

\* the threads of the program, each going through its handler line by line,
\* with nothing to keep one out of the table while another is in it; a
\* handler takes no time on the scale of a broadcast period
NextThreads ==
    \/ \E addr \in Addrs \ {me}, costs \in SomeVectors, direct \in WireDirects :
          update_costs_75(addr, costs, direct)
    \/ update_costs_83
    \/ update_costs_86
    \/ update_costs_87
    \/ update_costs_95
    \/ update_costs_100
    \/ \E addr \in Addrs \ {me} : cmd_linkdown_180(addr)
    \/ \E addr \in Addrs \ {me} : timer_linkdown_180(addr)
    \/ \E t \in {"cmd", "timer"} : linkdown_186(t)
    \/ \E t \in {"cmd", "timer"} : linkdown_188(t)
    \/ \E t \in {"cmd", "timer"} : linkdown_191(t)
    \/ \E addr \in Addrs \ {me} : cmd_linkup_194(addr)
    \/ cmd_linkup_205
    \/ (\A t \in Threads : pc[t].at = "idle") /\ period_elapses
    \/ RepeatTimer_run

SpecThreads == Init /\ [][NextThreads]_vars

\* the network: no commands, no datagram lost
NextNet ==
    \/ \E x \in Addrs : net_broadcast(x)
    \/ \E l \in Links : net_deliver(l[1], l[2])
    \/ net_period
    \/ \E l \in Links : net_expire(l[1], l[2])

SpecNet == Init /\ [][NextNet]_vars

\* time passes and a Timer that is due fires; that the RepeatTimers keep on
\* sending and the datagrams are received is the premise Carries of the
\* properties
FairNet ==
    /\ SpecNet
    /\ WF_vars(net_period)
    /\ WF_vars(\E l \in Links : net_expire(l[1], l[2]))

\* ------------------------------------------------------------ properties

IsNeighbor(a) == a \in Neighbors

\* the last step ran estimate_costs
Recomputed ==
    \/ last.op = "costsupdate"
    \/ last.op \in {"linkdown", "linkup", "linkchange", "expired"} /\ last.ok

\* C1 as stated: in the vectors that broadcast_costs has just built, the vector
\* for a neighbor N carries infinity for every destination D whose route is
\* N, the neighbor N itself included.
C1_PoisonEveryRoute ==
    last.op = "broadcast" =>
        \A n \in DOMAIN sent : \A d \in DOMAIN nodes :
            nodes[d].route = n => sent[n].costs[d] = Inf

\* C1 amended: in the vectors that broadcast_costs has just built, the vector
\* for a neighbor N carries infinity for every destination D other than N
\* itself whose route is N; a vector is built for every neighbor.
C1_PoisonReverse ==
    last.op = "broadcast" =>
        /\ DOMAIN sent = Neighbors
        /\ \A n \in DOMAIN sent : \A d \in DOMAIN nodes \ {n} :
              nodes[d].route = n => sent[n].costs[d] = Inf

\* a broadcast to neighbor B while C is reached through B at a finite cost,
\* and while B itself is reached directly at a finite cost that B is told
C1_Witness ==
    /\ last.op = "broadcast"
    /\ "B" \in DOMAIN sent
    /\ "C" \in DOMAIN nodes
    /\ nodes["C"].route = "B"
    /\ nodes["C"].cost < Inf
    /\ sent["B"].costs["C"] = Inf
    /\ nodes["B"].route = "B"
    /\ sent["B"].costs["B"] < Inf

\* the entries that the table held before the step are as they were, and so
\* are the countdowns
EntriesKept ==
    /\ \A x \in DOMAIN nodes : x \in DOMAIN nodes' /\ nodes'[x] = nodes[x]
    /\ orphans' = orphans

\* the whole table is as it was
TableKept == nodes' = nodes /\ order' = order /\ orphans' = orphans

\* C2: a linkup that takes effect gives the link the cost it had when the
\* linkdown (by command or by silence) that took it down ran, whatever
\* happened between the two.
C2_RestoreFidelity ==
    [][\A a \in Addrs :
          (last'.op = "linkup" /\ last'.addr = a /\ last'.ok) =>
              /\ downCost[a] # Absent
              /\ nodes'[a].direct = downCost[a]
              /\ nodes'[a].is_neighbor]_vars

\* B is up again at the cost 2 it was changed to before it was taken down,
\* with C found as a second neighbor since
C2_Witness ==
    /\ last.op = "linkup" /\ last.addr = "B" /\ last.ok
    /\ nodes["B"].direct = 2
    /\ "C" \in Neighbors

\* C3: linkchange with a cost below 1 is rejected whatever the address: every
\* entry keeps all its fields and the address gets no link cost.
C3_CostChangeValidation ==
    [][\A a \in Addrs :
          (last'.op = "linkchange" /\ last'.addr = a /\ last'.direct < 1) =>
              /\ ~last'.ok
              /\ EntriesKept
              /\ a \in DOMAIN nodes => TableKept
              /\ a \notin DOMAIN nodes => nodes'[a].direct = Absent]_vars

\* linkchange on neighbor B was rejected; B still has its cost and, as no
\* pass of estimate_costs ran, the startup route that no vector supports
C3_Witness ==
    /\ last.op = "linkchange" /\ last.addr = "B" /\ ~last.ok
    /\ last.direct = 0
    /\ last.nbr
    /\ nodes["B"].direct = 1
    /\ nodes["B"].cost = 1
    /\ nodes["B"].costs = NoCosts

\* C10: linkdown on an address that is no neighbor, linkup on an address with
\* no saved cost and linkchange on an address that is no neighbor (down or
\* not) are rejected and leave every entry, the order and the countdowns as
\* they were.
C10_RejectedTransitions ==
    [][\A a \in Addrs :
          /\ (last'.op = "linkdown" /\ last'.addr = a /\ ~IsNeighbor(a)) =>
                (~last'.ok /\ EntriesKept)
          /\ (last'.op = "linkup" /\ last'.addr = a /\ Status(nodes, a) # "down") =>
                (~last'.ok /\ EntriesKept)
          /\ (last'.op = "linkchange" /\ last'.addr = a /\ ~IsNeighbor(a)) =>
                (~last'.ok /\ EntriesKept)
          /\ (last'.op \in {"linkdown", "linkup", "linkchange"} /\ last'.addr = a
                /\ ~last'.ok /\ a \in DOMAIN nodes) => TableKept]_vars

\* linkup was rejected on neighbor B, which was never down, while C is down
C10_Witness ==
    /\ last.op = "linkup" /\ last.addr = "B" /\ ~last.ok
    /\ last.nbr
    /\ "C" \in DOMAIN nodes /\ nodes["C"].saved # Absent

Heard(a) == last.op = "costsupdate" /\ last.addr = a

\* C4 as stated: a neighbor, however it became one, that is not heard from
\* again is in the end taken down and stops being a neighbor.
C4_SilenceTimeout ==
    \A a \in Addrs \ {me} : IsNeighbor(a) ~> (~IsNeighbor(a) \/ Heard(a))

\* C5: a vector merged from a neighbor leaves that neighbor with one
\* countdown, at the full interval; and a countdown only runs its function
\* when a full interval has passed since the address was last heard from.
C5_SilenceReset ==
    /\ (last.op = "costsupdate" /\ last.nbr) =>
          /\ nodes[last.addr].silence_monitor = Interval
          /\ orphans[last.addr] = {}
    /\ last.op = "expired" => last.age >= Interval

\* a vector from neighbor B, two periods into B's countdown, restarted it
C5_Witness ==
    /\ last.op = "costsupdate" /\ last.addr = "B" /\ last.nbr
    /\ last.age = 2
    /\ nodes["B"].silence_monitor = Interval

\* what neighbor n offers for destination d; a missing key counts as infinity
Offer(n, d) ==
    IF nodes[n].costs[d] = Absent THEN Inf
    ELSE Plus(nodes[n].direct, nodes[n].costs[d])

Least(d) ==
    LET offers == {Offer(n, d) : n \in Neighbors} \cup {Inf}
    IN  CHOOSE m \in offers : \A x \in offers : m <= x

Example == [d \in Addrs |-> IF d = me THEN 1 ELSE IF d = "C" THEN 5 ELSE Absent]

\* C6: after a pass of estimate_costs every destination other than this node
\* has the least cost any neighbor offers, routed through a neighbor that
\* offers it, or infinity and no route when no neighbor offers a finite one;
\* with B the only neighbor, at 1, advertising {A: 1, C: 5}, C costs 6 via B.
C6_RecomputeCorrect ==
    Recomputed =>
        /\ \A d \in DOMAIN nodes \ {me} :
              /\ nodes[d].cost = Least(d)
              /\ Least(d) < Inf =>
                    /\ nodes[d].route \in Neighbors
                    /\ Offer(nodes[d].route, d) = Least(d)
              /\ Least(d) = Inf => nodes[d].route = ""
        /\ (Neighbors = {"B"} /\ nodes["B"].direct = 1 /\ nodes["B"].costs = Example) =>
              (nodes["C"].cost = 6 /\ nodes["C"].route = "B")

\* the example: B alone, at 1, has advertised {A: 1, C: 5}
C6_Witness ==
    /\ last.op = "costsupdate" /\ last.addr = "B"
    /\ Neighbors = {"B"}
    /\ nodes["B"].direct = 1
    /\ nodes["B"].costs = Example
    /\ nodes["C"].cost = 6
    /\ nodes["C"].route = "B"

\* the table with the cost and route of every destination overwritten
Scrubbed(c, r) ==
    [x \in DOMAIN nodes |->
        IF x = me THEN nodes[x] ELSE [nodes[x] EXCEPT !.cost = c, !.route = r]]

\* C7: after a pass of estimate_costs another pass changes nothing, and a pass
\* over the same neighbors, link costs and vectors gives the same costs and
\* routes whatever costs and routes the entries held before.
C7_Idempotent ==
    Recomputed =>
        /\ estimate_costs(nodes, order) = nodes
        /\ \A j \in {<<0, "">>, <<1, "C">>, <<Inf, "B">>} :
              estimate_costs(Scrubbed(j[1], j[2]), order) = nodes

\* a pass has run with two neighbors that both offer a finite cost for C
C7_Witness ==
    /\ Recomputed
    /\ Neighbors = {"B", "C"}
    /\ Offer("B", "C") < Inf
    /\ Offer("C", "C") < Inf
    /\ nodes["C"].cost < Inf

\* C8: no step changes the cost or the route of this node's own entry.
C8_NoSelfRoute ==
    [][/\ nodes'[me].cost = nodes[me].cost
       /\ nodes'[me].route = nodes[me].route]_vars

\* a pass of estimate_costs ran on a takedown by silence while a neighbor's
\* vector lists this node at cost 1
C8_Witness ==
    /\ last.op = "expired" /\ last.ok
    /\ \E n \in Neighbors : nodes[n].costs[me] = 1
    /\ nodes[me].cost = 0
    /\ nodes[me].route = ""

\* C9: a vector from a sender that is no neighbor (unknown, a plain
\* destination or a link that is down) makes the sender a neighbor with the
\* link cost the datagram claims, the vector it carries and a countdown
\* running at the full interval.
C9_NeighborDiscovery ==
    [][\A s \in Addrs :
          (last'.op = "costsupdate" /\ last'.addr = s /\ ~IsNeighbor(s)) =>
              /\ nodes'[s].is_neighbor
              /\ nodes'[s].direct = last'.direct
              /\ nodes'[s].costs = last'.costs
              /\ nodes'[s].silence_monitor = Interval
              /\ orphans'[s] = {}]_vars

\* B, a neighbor from the start, was taken down and is a neighbor again by
\* its own vector, at the cost 2 that the datagram claims
C9_Witness ==
    /\ last.op = "costsupdate" /\ last.addr = "B" /\ ~last.nbr
    /\ last.direct = 2
    /\ nodes["B"].is_neighbor
    /\ nodes["B"].direct = 2
    /\ nodes["B"].silence_monitor = Interval
    /\ nodes["B"].saved = Absent

\* C11 as stated: a command on an address that the table does not hold is
\* rejected and leaves the table as it was, with no entry for the address.
C11_UnknownNodeUntouched ==
    [][\A a \in Addrs :
          (last'.op \in {"linkdown", "linkup", "linkchange"} /\ last'.addr = a
              /\ a \notin DOMAIN nodes) =>
                (~last'.ok /\ nodes' = nodes)]_vars

\* C11 amended: a command on an address that the table does not hold is
\* rejected and changes no existing entry, but the lookup leaves a default
\* entry (infinite cost, no neighbor, no route, no link cost, no countdown) for
\* the address at the end of the table; and every vector of a broadcast lists
\* every address of the table, this one at infinity.
C11_UnknownNode ==
    [][/\ \A a \in Addrs :
            (last'.op \in {"linkdown", "linkup", "linkchange"} /\ last'.addr = a
                /\ a \notin DOMAIN nodes) =>
                  /\ ~last'.ok
                  /\ EntriesKept
                  /\ DOMAIN nodes' = DOMAIN nodes \cup {a}
                  /\ nodes'[a] = default_node
                  /\ order' = Append(order, a)
       /\ last'.op = "broadcast" =>
            \A n \in DOMAIN sent' : \A d \in DOMAIN nodes :
                /\ d \in DOMAIN sent'[n].costs
                /\ nodes[d] = default_node => sent'[n].costs[d] = Inf]_vars

\* a broadcast to B lists C at infinity; C is in the table only because a
\* command named it: B has sent no vector and C never was a neighbor
C11_Witness ==
    /\ last.op = "broadcast"
    /\ order = <<"B", me, "C">>
    /\ nodes["C"] = default_node
    /\ nodes["B"].costs = NoCosts
    /\ "B" \in DOMAIN sent
    /\ sent["B"].costs["C"] = Inf

\* C12 as stated: once the handling of a datagram has failed (it was no JSON,
\* or its handler raised) the receive loop is still running, so that it
\* takes the datagrams that come later.
C12_ReceiveLoopIsolated == loop.failed => loop.state = "running"

\* the lines of a handler that come after its first write to the table and
\* before the end of its pass of estimate_costs
Mid == {"87", "100", "188", "191", "205"}

\* C13 as stated: while a handler is between its first write and the end of
\* its pass of estimate_costs, no other thread moves in a handler of its own
\* and no broadcast is built.
C13_AtomicMutation ==
    [][\A t \in Threads :
          pc[t].at \in Mid =>
              /\ \A u \in Threads \ {t} : pc'[u].at = pc[u].at
              /\ last'.op # "broadcast"]_vars

\* C14 as stated: a saved link cost, once written by a takedown, is not
\* written again by another takedown; it stays until it is restored or the
\* entry is made anew.
C14_TakedownOnce ==
    [][\A a \in DOMAIN nodes \cap DOMAIN nodes' :
          nodes[a].saved # Absent => nodes'[a].saved \in {Absent, nodes[a].saved}]_vars

\* C18 as stated: every address that the table holds is held in the next
\* state as well, also in the states between the lines of a handler.
C18_EntriesNeverDeleted == [][DOMAIN nodes \subseteq DOMAIN nodes']_vars

\* C15 as stated: in every state between handlers, an entry has a countdown
\* that runs (started, neither cancelled nor run out) exactly when it is a
\* neighbor.
C15_TimerIffNeighbor ==
    \A a \in DOMAIN nodes :
        Running(nodes[a].silence_monitor) <=> nodes[a].is_neighbor

\* C16 as stated: every entry of the table, the node's own included, has a
\* route exactly when its cost is finite.
C16_RouteIffFiniteAll ==
    \A a \in DOMAIN nodes : (nodes[a].route # "") <=> (nodes[a].cost < Inf)

\* C16 amended: every entry of the table other than the node's own has a
\* route exactly when its cost is finite.
C16_RouteIffFinite ==
    \A a \in DOMAIN nodes \ {me} : (nodes[a].route # "") <=> (nodes[a].cost < Inf)

\* after a vector from B that lists C but not B itself: C costs 6 through B,
\* and B, though a neighbor, has infinite cost and no route
C16_Witness ==
    /\ last.op = "costsupdate" /\ last.addr = "B"
    /\ nodes["B"].is_neighbor
    /\ nodes["B"].cost = Inf /\ nodes["B"].route = ""
    /\ nodes["C"].cost = 6 /\ nodes["C"].route = "B"

\* C17: an entry carries a saved link cost exactly when it was last taken
\* down and has not been brought up or made a neighbor anew since; the saved
\* cost is the one it had when taken down; an entry with a saved cost is no
\* neighbor and has an infinite link cost.
C17_SavedCost ==
    \A a \in Addrs :
        /\ a \notin DOMAIN nodes => downCost[a] = Absent
        /\ a \in DOMAIN nodes =>
              /\ nodes[a].saved = downCost[a]
              /\ nodes[a].saved # Absent =>
                    (~nodes[a].is_neighbor /\ nodes[a].direct = Inf)

\* B, changed to cost 2 and then silent, was taken down by its monitor and
\* carries the saved cost 2
C17_Witness ==
    /\ last.op = "expired" /\ last.addr = "B" /\ last.ok
    /\ nodes["B"].saved = 2
    /\ ~nodes["B"].is_neighbor
    /\ nodes["B"].direct = Inf

\* C20: between handlers every destination other than this node that has a
\* route has a neighbor as its route; and right after a takedown of N, by
\* command or by silence, no destination is routed through N and the cost of
\* N is the least that the remaining neighbors offer.
C20_RouteThroughNeighbor ==
    /\ \A d \in DOMAIN nodes \ {me} :
          nodes[d].route # "" => nodes[d].route \in Neighbors
    /\ (last.op \in {"linkdown", "expired"} /\ last.ok) =>
          /\ \A d \in DOMAIN nodes \ {me} : nodes[d].route # last.addr
          /\ nodes[last.addr].cost = Least(last.addr)

\* B was taken down while C is a neighbor that lists B: B is no longer reached
\* directly at its old cost but through C
C20_Witness ==
    /\ last.op = "linkdown" /\ last.addr = "B" /\ last.ok
    /\ "C" \in Neighbors
    /\ nodes["B"].route = "C"
    /\ nodes["B"].cost < Inf
    /\ nodes["C"].route # "B"

\* the length of a shortest path from x to d over the configured links
Dist(x, d) ==
    IF x = d THEN 0
    ELSE LET via == {Plus(LinkCost(x, z), LinkCost(z, d)) : z \in Addrs \ {x, d}}
             all == via \cup {LinkCost(x, d)}
         IN  CHOOSE m \in all : \A c \in all : m <= c

\* every node has, for every other node, the cost of a shortest path and a
\* route that begins one
Converged ==
    \A x \in Addrs : \A d \in Addrs \ {x} :
        /\ d \in DOMAIN net.tbl[x]
        /\ net.tbl[x][d].cost = Dist(x, d)
        /\ net.tbl[x][d].route \in Addrs \ {x}
        /\ Plus(LinkCost(x, net.tbl[x][d].route), Dist(net.tbl[x][d].route, d)) = Dist(x, d)

\* every RepeatTimer keeps on sending on every link, and every datagram
\* under way is received
Carries ==
    \A l \in Links : /\ []<>(net.chan[l] # << >>)
                     /\ []<>(net.chan[l] = << >>)

====
